---- MODULE Spec2Model ----
(***************************************************************************)
(* Model of matrix-openai-bot: the per-message handler on_room_message     *)
(* (src/src/main.rs), the command interpreter (src/src/command.rs), the    *)
(* conversation store and turn engine (src/src/openai/conversation.rs) and *)
(* the tool-call decoder (src/src/openai/tools.rs).                        *)
(*                                                                         *)
(* Text is a sequence of one-character strings, so that trimming, the      *)
(* prefix test and the split on the space character are computed as the    *)
(* code computes them.  Every message event of a room is in the room's     *)
(* timeline from the moment it is delivered (the homeserver stores an      *)
(* event before it hands it to the application service), so the backward   *)
(* stream read by backfill sees the message that triggered it.             *)
(***************************************************************************)
EXTENDS Integers, Sequences, FiniteSets, TLC

VARIABLES
    events,     \* every raw event ever created, indexed by its event id
    timeline,   \* room -> event ids of the room, oldest first
    store,      \* ConversationStore.inner for the bot user: room -> anchor list
    handlers,   \* event id -> the on_room_message task spawned for that event
    quota,      \* live user messages that may still be delivered
    menu,       \* the live user messages the run draws from, for each value of
                \* quota: a set of (room, body, mentions)
    input,      \* argument of the pure function under check (parse, into_actions)
    output      \* its result

vars == <<events, timeline, store, handlers, quota, menu, input, output>>

-----------------------------------------------------------------------------
(* Bounds *)

\* live user messages delivered in a run of Spec
MaxLive == 2
\* live user messages delivered in a run of SpecReset: the second is a reset
MaxRace == 3
\* events a room holds before the bot first looks at it, in SpecBackfill
MaxHist == 3
\* pieces an input text of Command::parse is built from, in SpecParse
MaxPieces == 4
\* tool-call records of a backend message, in SpecActions and SpecPrompt
MaxTools == 2
\* choices of a backend response, in SpecPrompt
MaxChoices == 2

-----------------------------------------------------------------------------
(* Text *)

Reverse(s) == [i \in 1..Len(s) |-> s[Len(s) + 1 - i]]

RECURSIVE Flatten(_)
Flatten(ss) == IF ss = <<>> THEN <<>> ELSE Head(ss) \o Flatten(Tail(ss))

\* char::is_whitespace, restricted to the characters the inputs use
WhiteSpace == {" ", "\t", "\n"}

T_reset   == <<"r", "e", "s", "e", "t">>
T_help    == <<"h", "e", "l", "p">>
T_version == <<"v", "e", "r", "s", "i", "o", "n">>
T_hi      == <<"h", "i">>
T_ok      == <<"o", "k">>
T_bang    == <<"!">>

RECURSIVE trim_start(_)
trim_start(s) ==
    IF s = <<>> \/ Head(s) \notin WhiteSpace THEN s ELSE trim_start(Tail(s))

\* str::trim: leading and trailing whitespace removed
trim(s) == Reverse(trim_start(Reverse(trim_start(s))))

\* first item of str::splitn(2, ' '): the text before the first space character
RECURSIVE splitn_first(_)
splitn_first(s) ==
    IF s = <<>> \/ Head(s) = " " THEN <<>> ELSE <<Head(s)>> \o splitn_first(Tail(s))

NoCommand == [tag |-> "None", keyword |-> <<>>]

\* splitn_first as it would be with the split on every whitespace character
RECURSIVE splitn_first_whitespace(_)
splitn_first_whitespace(s) ==
    IF s = <<>> \/ Head(s) \in WhiteSpace THEN <<>>
    ELSE <<Head(s)>> \o splitn_first_whitespace(Tail(s))

\* parse without the trim of its input
parse_untrimmed(text) ==
    IF text = <<>> \/ Head(text) # "!" THEN NoCommand
    ELSE LET keyword == splitn_first(Tail(text))
         IN  IF keyword = T_reset THEN [tag |-> "Reset", keyword |-> <<>>]
             ELSE IF keyword = T_help THEN [tag |-> "Help", keyword |-> <<>>]
             ELSE IF keyword = T_version THEN [tag |-> "Version", keyword |-> <<>>]
             ELSE [tag |-> "Unknown", keyword |-> keyword]

\* Command::parse
parse(text) ==
    LET trimmed == trim(text)
    IN  IF trimmed = <<>> \/ Head(trimmed) # "!" THEN NoCommand
        ELSE LET keyword == splitn_first(Tail(trimmed))
             IN  IF keyword = T_reset THEN [tag |-> "Reset", keyword |-> <<>>]
                 ELSE IF keyword = T_help THEN [tag |-> "Help", keyword |-> <<>>]
                 ELSE IF keyword = T_version THEN [tag |-> "Version", keyword |-> <<>>]
                 ELSE [tag |-> "Unknown", keyword |-> keyword]

\* Command::into_processed: only Reset is a backfill boundary
into_processed(command) ==
    IF command.tag = "Reset" THEN [tag |-> "Stop"] ELSE [tag |-> "None"]

-----------------------------------------------------------------------------
(* Rooms, users, events *)

Rooms == {"dm", "grp"}

\* Room::is_direct
is_direct(room) == room = "dm"

Bot == "bot"
Alice == "alice"

\* event.content.mentions: None, Some without the bot, Some with the bot
MentionValues == {"absent", "others", "bot"}

Event(room, sender, kind, body, mentions) ==
    [room |-> room, sender |-> sender, kind |-> kind, body |-> body,
     mentions |-> mentions]

TextContent(text) == [tag |-> "Text", text |-> text]

\* create_message: the role follows the sender, the content is the body text
create_message(event) ==
    [role       |-> IF event.sender = Bot THEN "assistant" ELSE "user",
     content    |-> TextContent(event.body),
     tool_calls |-> <<>>]

Continue(id, message) == [tag |-> "Continue", id |-> id, message |-> message]

\* handle_event with every command kept as a turn except reset
handle_event_keeps_commands(id) ==
    IF parse(events[id].body).tag = "Reset" THEN [tag |-> "Stop"]
    ELSE Continue(id, create_message(events[id]))

\* process_raw_event::handle_event
handle_event(id) ==
    IF parse(events[id].body).tag # "None"
    THEN into_processed(parse(events[id].body))
    ELSE Continue(id, create_message(events[id]))

\* Conversation::process_raw_event: Continue, Stop, None (ignored) or Err
process_raw_event(id) ==
    LET kind == events[id].kind
    IN  CASE kind = "bad_tag"       -> [tag |-> "None"]
          [] kind = "member_left"   -> [tag |-> "Stop"]
          [] kind = "member_other"  -> [tag |-> "None"]
          [] kind = "member_bad"    -> [tag |-> "Err"]
          [] kind = "message"       -> handle_event(id)
          [] kind = "message_bad"   -> [tag |-> "Err"]
          [] kind = "encrypted"     -> handle_event(id)
          [] kind = "encrypted_bad" -> [tag |-> "Err"]
          [] OTHER                  -> [tag |-> "None"]

-----------------------------------------------------------------------------
(* ConversationStore: the map of the bot user, room -> Vec<OwnedEventId> *)

\* the anchor list of a room; a room without an entry has none
Anchors(s, room) == IF room \in DOMAIN s THEN s[room] ELSE <<>>

WithEntry(s, room, ids) ==
    [r \in DOMAIN s \cup {room} |-> IF r = room THEN ids ELSE s[r]]

\* clear that empties the list of every room of the user
clear_all_rooms(s, room) == [r \in DOMAIN s \cup {room} |-> <<>>]

\* clear that leaves the list as it is
clear_noop(s, room) == WithEntry(s, room, Anchors(s, room))

\* ConversationStore::clear
clear(s, room) == WithEntry(s, room, <<>>)

\* ConversationStore::insert_events
insert_events(s, room, ids) == WithEntry(s, room, Anchors(s, room) \o ids)

\* ConversationStore::set
set(s, room, ids) == WithEntry(s, room, ids)

\* get_conversation, the store part: entry(..).or_insert_with(Vec::new).clone()
or_insert(s, room) == WithEntry(s, room, Anchors(s, room))

\* get_conversation, the fetch part: every anchored event must be a message
\* (plain or encrypted); from_events then maps create_message over them
from_events(ids) ==
    IF \E i \in 1..Len(ids) : events[ids[i]].kind \notin {"message", "encrypted"}
    THEN [tag |-> "Err", messages |-> <<>>]
    ELSE [tag |-> "Ok",
          messages |-> [i \in 1..Len(ids) |-> create_message(events[ids[i]])]]

-----------------------------------------------------------------------------
(* Conversation::backfill *)

\* the stream stages with an Err result dropped like an ignored event
RECURSIVE scan_stream_skip_errors(_)
scan_stream_skip_errors(ids) ==
    IF ids = <<>> THEN <<>>
    ELSE LET p == process_raw_event(Head(ids))
         IN  CASE p.tag \in {"None", "Err"} -> scan_stream_skip_errors(Tail(ids))
               [] p.tag = "Continue"       -> <<p>> \o scan_stream_skip_errors(Tail(ids))
               [] OTHER                    -> <<>>

\* the stream stages of backfill over event ids given newest first:
\* try_filter_map drops the ignored events, scan keeps the Continue results
\* up to the first Stop or Err
RECURSIVE scan_stream(_)
scan_stream(ids) ==
    IF ids = <<>> THEN <<>>
    ELSE LET p == process_raw_event(Head(ids))
         IN  CASE p.tag = "None"     -> scan_stream(Tail(ids))
               [] p.tag = "Continue" -> <<p>> \o scan_stream(Tail(ids))
               [] OTHER              -> <<>>

\* the collected results as backfill leaves them, without the reversal
collected_unreversed(scan) == scan

\* .into_iter().rev(): the collected results, oldest first
collected_rev(scan) == Reverse(scan)

IdsOf(pairs) == [i \in 1..Len(pairs) |-> pairs[i].id]
MessagesOf(pairs) == [i \in 1..Len(pairs) |-> pairs[i].message]

-----------------------------------------------------------------------------
(* Tool calls and into_actions *)

\* the arguments texts a backend tool-call record carries in the model
ArgTexts ==
    {"{\"url\":\"https://x\"}", "{\"url\":\"https://x\",\"extra\":1}",
     "{\"url\":5}", "{}", "not json"}

JsonString(value) == [type |-> "string", value |-> value]
JsonNumber(value) == [type |-> "number", value |-> value]

\* serde_json::from_str of an arguments text: an error, or the fields of
\* the object as (name, value) pairs
json_from_str(text) ==
    CASE text = "{\"url\":\"https://x\"}" ->
            [tag |-> "Ok", fields |-> {<<"url", JsonString("https://x")>>}]
      [] text = "{\"url\":\"https://x\",\"extra\":1}" ->
            [tag |-> "Ok", fields |-> {<<"url", JsonString("https://x")>>,
                                        <<"extra", JsonNumber("1")>>}]
      [] text = "{\"url\":5}" ->
            [tag |-> "Ok", fields |-> {<<"url", JsonNumber("5")>>}]
      [] text = "{}" -> [tag |-> "Ok", fields |-> {}]
      [] OTHER       -> [tag |-> "Err", fields |-> {}]

ToolNames == {"fetch_url", "other_tool"}

ToolCallRecord(name, arguments) == [name |-> name, arguments |-> arguments]

ToolErr == [tag |-> "Err", url |-> ""]

\* serde_json::from_value of the arguments against FetchUrl { url: String }:
\* the field url must be there and be a string, other fields are ignored
fetch_url_from_value(fields) ==
    IF \E f \in fields : f[1] = "url" /\ f[2].type = "string"
    THEN [tag |-> "FetchUrl",
          url |-> (CHOOSE f \in fields : f[1] = "url" /\ f[2].type = "string")[2].value]
    ELSE ToolErr

\* try_from that decodes the arguments whatever the function name is
try_from_any_name(tool_call) ==
    LET arguments == json_from_str(tool_call.arguments)
    IN  IF arguments.tag = "Err" THEN ToolErr
        ELSE fetch_url_from_value(arguments.fields)

\* impl TryFrom<&ToolCall> for Tool: the arguments text is parsed, tagged
\* with the function name and decoded as the enum Tool, whose only variant
\* is named fetch_url
try_from(tool_call) ==
    LET arguments == json_from_str(tool_call.arguments)
    IN  IF arguments.tag = "Err" THEN ToolErr
        ELSE IF tool_call.name = "fetch_url"
             THEN fetch_url_from_value(arguments.fields)
             ELSE ToolErr

ReplyAction(text) == [tag |-> "Reply", text |-> text, url |-> ""]
ToolCallAction(tool) == [tag |-> "ToolCall", text |-> <<>>, url |-> tool.url]

ActionsErr == [tag |-> "Err", actions |-> <<>>]

RECURSIVE tool_actions(_)
tool_actions(tool_calls) ==
    IF tool_calls = <<>> THEN [tag |-> "Ok", actions |-> <<>>]
    ELSE LET tool == try_from(Head(tool_calls))
             rest == tool_actions(Tail(tool_calls))
         IN  IF tool.tag = "Err" \/ rest.tag = "Err" THEN ActionsErr
             ELSE [tag |-> "Ok", actions |-> <<ToolCallAction(tool)>> \o rest.actions]

\* into_actions
into_actions(message) ==
    IF message.content.tag # "Text" THEN ActionsErr
    ELSE LET tools == tool_actions(message.tool_calls)
         IN  IF tools.tag = "Err" THEN ActionsErr
             ELSE [tag |-> "Ok",
                   actions |-> <<ReplyAction(message.content.text)>> \o tools.actions]

NoContent == [tag |-> "None", text |-> <<>>]
ImagesContent == [tag |-> "Images", text |-> <<>>]

BackendMessage(content, tool_calls) ==
    [role |-> "assistant", content |-> content, tool_calls |-> tool_calls]

\* send_prompt that consults the last action instead of the first
send_prompt_result_last_action(outcome) ==
    IF outcome.tag = "error" THEN [tag |-> "Err", text |-> <<>>]
    ELSE IF outcome.choices = <<>> THEN [tag |-> "Panic", text |-> <<>>]
    ELSE LET action == into_actions(Head(outcome.choices))
         IN  IF action.tag = "Err" THEN [tag |-> "Err", text |-> <<>>]
             ELSE IF action.actions[Len(action.actions)].tag = "Reply"
                  THEN [tag |-> "Ok", text |-> action.actions[Len(action.actions)].text]
                  ELSE [tag |-> "Err", text |-> <<>>]

\* send_prompt from the backend's answer on: Ok(reply text), Err, or the
\* panic of choices.first().unwrap() on an empty choices list
send_prompt_result(outcome) ==
    IF outcome.tag = "error" THEN [tag |-> "Err", text |-> <<>>]
    ELSE IF outcome.choices = <<>> THEN [tag |-> "Panic", text |-> <<>>]
    ELSE LET action == into_actions(Head(outcome.choices))
         IN  IF action.tag = "Err" THEN [tag |-> "Err", text |-> <<>>]
             ELSE IF action.actions # <<>> /\ Head(action.actions).tag = "Reply"
                  THEN [tag |-> "Ok", text |-> Head(action.actions).text]
                  ELSE [tag |-> "Err", text |-> <<>>]

-----------------------------------------------------------------------------
(* on_room_message: one task per delivered message event *)

\* pc is the place the task is at; the ret_* values are its return sites
\* (main.rs lines 137, 148, 161, 180), err an error returned with `?`,
\* panic the abort of the task, past an event that was never delivered live
Returned == {"ret_self", "ret_unmentioned", "ret_command", "ret_ok", "err", "panic"}

Task(pc) ==
    [pc          |-> pc,
     messages    |-> <<>>,    \* Conversation.messages
     sources     |-> <<>>,    \* the event each turn of messages was built from
     scan        |-> <<>>,    \* backfill: the collected (id, message) results
     stream      |-> <<>>,    \* backfill: the event ids the stream gave, newest first
     request     |-> <<>>,    \* the messages of the backend request, once issued
     reply       |-> <<>>,    \* the text send_prompt returned
     response_id |-> 0,       \* the event id send_message returned
     boundary    |-> 0]       \* the newest reset of the room whose handler had
                              \* returned when the message was delivered

Live == {h \in DOMAIN handlers : handlers[h].pc # "past"}

RoomOf(h) == events[h].room

\* the bodies of the live user messages: a prompt, a reset, an unknown
\* command with leading whitespace
LiveBodies == {T_hi, T_bang \o T_reset, <<" ">> \o T_bang \o T_hi}

\* the live user messages: in a direct room the mentions are never looked at
LiveInputs ==
    {<<"dm", body, "absent">> : body \in LiveBodies}
    \cup {<<"grp", body, mentions>> :
            body \in {T_hi, T_bang \o T_reset}, mentions \in MentionValues}

\* the reply texts of the backend
ReplyTexts == {T_ok, T_bang \o T_ok}

UrlCall == ToolCallRecord("fetch_url", "{\"url\":\"https://x\"}")
BadCall == ToolCallRecord("other_tool", "{}")

\* what the backend call of send_prompt can bring: a transport or body
\* decoding error, or a response with its choices
BackendOutcomes ==
    {[tag |-> "error", choices |-> <<>>], [tag |-> "response", choices |-> <<>>]}
    \cup {[tag |-> "response", choices |-> <<BackendMessage(TextContent(t), <<>>)>>] :
            t \in ReplyTexts}
    \cup {[tag |-> "response", choices |-> <<BackendMessage(c, <<tc>>)>>] :
            c \in {NoContent, ImagesContent, TextContent(T_ok)}, tc \in {UrlCall, BadCall}}

\* a new event enters a room and gets the next event id
Emit(event) ==
    /\ events' = Append(events, event)
    /\ timeline' = [timeline EXCEPT ![event.room] = Append(@, Len(events) + 1)]

\* the resets of a room whose handler has returned from the command branch
ReturnedResets(room) ==
    {g \in DOMAIN handlers :
        /\ events[g].room = room
        /\ handlers[g].pc = "ret_command"
        /\ parse(events[g].body).tag = "Reset"}

\* a user sends a message to a room; the event is handed to on_room_message
Deliver(room, body, mentions) ==
    /\ quota > 0
    /\ <<room, body, mentions>> \in menu[quota]
    /\ quota' = quota - 1
    /\ Emit(Event(room, Alice, "message", body, mentions))
    /\ handlers' = Append(handlers,
          [Task("start") EXCEPT !.boundary =
              IF ReturnedResets(room) = {} THEN 0
              ELSE CHOOSE g \in ReturnedResets(room) :
                       \A f \in ReturnedResets(room) : f <= g])
    /\ UNCHANGED <<store, menu, input, output>>

Goto(h, pc) == handlers' = [handlers EXCEPT ![h].pc = pc]

\* the sender test that lets every message through
sent_by_bot_never(event) == FALSE

\* main.rs 136: &context.sender == user.id()
sent_by_bot(event) == event.sender = Bot

\* the mention gate as the comment above it states it: a group chat message
\* is dropped unless it mentions the bot
not_mentioned_strict(event) ==
    ~is_direct(event.room) /\ event.mentions # "bot"

\* main.rs 144-147: !is_direct && let Some(mentions) = .. && !contains(bot)
not_mentioned(event) ==
    ~is_direct(event.room) /\ event.mentions # "absent" /\ event.mentions # "bot"

\* the command test of the live path restricted to reset
live_command_only_reset(body) ==
    IF parse(body).tag = "Reset" THEN parse(body) ELSE NoCommand

\* main.rs 155: Command::parse(event.content.body())
live_command(body) == parse(body)

\* the test before backfill without is_direct
wants_backfill_any_room(messages, room) == messages = <<>>

\* main.rs 168: conversation.is_empty().await && is_direct
wants_backfill(messages, room) == messages = <<>> /\ is_direct(room)

\* main.rs 133-168, up to the first use of shared state after the gates:
\* the sender test, the mention gate, the command branch (reset clears the
\* store) and get_conversation (the entry is created under the write lock,
\* then the anchored events are fetched).  get_bot, get_room, get_device,
\* send_receipt and send_typing can each fail before the store is touched;
\* the fetches of get_conversation can fail after the entry was created.
Receive(h) ==
    /\ handlers[h].pc = "start"
    /\ \/ /\ Goto(h, "err")
          /\ UNCHANGED store
       \/ /\ sent_by_bot(events[h])
          /\ Goto(h, "ret_self")
          /\ UNCHANGED store
       \/ /\ ~sent_by_bot(events[h])
          /\ not_mentioned(events[h])
          /\ Goto(h, "ret_unmentioned")
          /\ UNCHANGED store
       \/ /\ ~sent_by_bot(events[h])
          /\ ~not_mentioned(events[h])
          /\ live_command(events[h].body).tag # "None"
          /\ store' = IF live_command(events[h].body).tag = "Reset"
                      THEN clear(store, RoomOf(h)) ELSE store
          /\ Goto(h, "ret_command")
       \/ /\ ~sent_by_bot(events[h])
          /\ ~not_mentioned(events[h])
          /\ live_command(events[h].body).tag = "None"
          /\ store' = or_insert(store, RoomOf(h))
          /\ LET got == from_events(Anchors(store, RoomOf(h)))
             IN  \/ Goto(h, "err")
                 \/ /\ got.tag = "Ok"
                    /\ handlers' = [handlers EXCEPT
                          ![h].messages = got.messages,
                          ![h].sources = Anchors(store, RoomOf(h)),
                          ![h].pc = IF wants_backfill(got.messages, RoomOf(h))
                                    THEN "backfill" ELSE "send_prompt"]
    /\ UNCHANGED <<events, timeline, quota, menu, input, output>>

\* backfill, lines 179-190: the backward stream of the room as it is now;
\* a transport error after n items ends the scan like a Stop does
BackfillScan(h) ==
    /\ handlers[h].pc = "backfill"
    /\ \E n \in 0..Len(timeline[RoomOf(h)]) :
          LET stream == SubSeq(Reverse(timeline[RoomOf(h)]), 1, n)
          IN  handlers' = [handlers EXCEPT
                  ![h].scan = scan_stream(stream),
                  ![h].stream = stream,
                  ![h].pc = "set"]
    /\ UNCHANGED <<events, timeline, store, quota, menu, input, output>>

\* backfill, lines 191-202: reverse, unzip, store.set, and the recovered
\* messages put before the ones the conversation holds
BackfillSet(h) ==
    /\ handlers[h].pc = "set"
    /\ LET pairs == collected_rev(handlers[h].scan)
       IN  /\ store' = set(store, RoomOf(h), IdsOf(pairs))
           /\ handlers' = [handlers EXCEPT
                 ![h].messages = MessagesOf(pairs) \o @,
                 ![h].sources = IdsOf(pairs) \o @,
                 ![h].scan = <<>>,
                 ![h].stream = <<>>,
                 ![h].pc = "send_prompt"]
    /\ UNCHANGED <<events, timeline, quota, menu, input, output>>

\* the pushed turn with the role of the assistant
PromptMessage_assistant_role(text) ==
    [role |-> "assistant", content |-> TextContent(text), tool_calls |-> <<>>]

\* send_prompt, lines 207-211: the turn pushed for the prompt
PromptMessage(text) ==
    [role |-> "user", content |-> TextContent(text), tool_calls |-> <<>>]

\* main.rs 172-175: send_prompt (the prompt is pushed, the request carries
\* all messages, the backend's answer decides the result) and, on a reply,
\* device.send_message, which can fail; the reply becomes an event of the
\* room, sent by the bot, and is delivered to on_room_message like any other
Reply(h) ==
    /\ handlers[h].pc = "send_prompt"
    /\ \E outcome \in BackendOutcomes :
          LET pushed == Append(handlers[h].messages, PromptMessage(events[h].body))
              result == send_prompt_result(outcome)
              called == [handlers EXCEPT ![h].messages = pushed,
                                         ![h].sources = Append(@, h),
                                         ![h].request = pushed,
                                         ![h].reply = result.text]
          IN  \/ /\ result.tag # "Ok"
                 /\ handlers' = [called EXCEPT
                       ![h].pc = IF result.tag = "Panic" THEN "panic" ELSE "err"]
                 /\ UNCHANGED <<events, timeline>>
              \/ /\ result.tag = "Ok"
                 /\ handlers' = [called EXCEPT ![h].pc = "err"]
                 /\ UNCHANGED <<events, timeline>>
              \/ /\ result.tag = "Ok"
                 /\ Emit(Event(RoomOf(h), Bot, "message", result.text, "absent"))
                 /\ handlers' = Append([called EXCEPT
                                           ![h].response_id = Len(events) + 1,
                                           ![h].pc = "insert_dialog"],
                                       Task("start"))
    /\ UNCHANGED <<store, quota, menu, input, output>>

\* main.rs 176-180: insert_dialog, then send_typing(false), which can fail
InsertDialog(h) ==
    /\ handlers[h].pc = "insert_dialog"
    /\ store' = insert_events(store, RoomOf(h), <<h, handlers[h].response_id>>)
    /\ \/ Goto(h, "ret_ok")
       \/ Goto(h, "err")
    /\ UNCHANGED <<events, timeline, quota, menu, input, output>>

Idle == [tag |-> "Idle"]

\* the state after ConversationStore::new: no entry, no event, no task
Init ==
    /\ events = <<>>
    /\ timeline = [r \in Rooms |-> <<>>]
    /\ store = <<>>
    /\ handlers = <<>>
    /\ quota = MaxLive
    /\ menu = [q \in 1..MaxLive |-> LiveInputs]
    /\ input = <<>>
    /\ output = Idle

Next ==
    \/ \E in \in LiveInputs : Deliver(in[1], in[2], in[3])
    \/ \E h \in DOMAIN handlers : Receive(h)
    \/ \E h \in DOMAIN handlers : BackfillScan(h)
    \/ \E h \in DOMAIN handlers : BackfillSet(h)
    \/ \E h \in DOMAIN handlers : Reply(h)
    \/ \E h \in DOMAIN handlers : InsertDialog(h)

Spec == Init /\ [][Next]_vars

\* the same program with every live message sent to the direct room
InitDirect ==
    /\ events = <<>>
    /\ timeline = [r \in Rooms |-> <<>>]
    /\ store = <<>>
    /\ handlers = <<>>
    /\ quota = MaxLive
    /\ menu = [q \in 1..MaxLive |-> {in \in LiveInputs : is_direct(in[1])}]
    /\ input = <<>>
    /\ output = Idle

SpecDirect == InitDirect /\ [][Next]_vars

\* the direct room with a prompt, then a reset, then prompts again
InitReset ==
    /\ events = <<>>
    /\ timeline = [r \in Rooms |-> <<>>]
    /\ store = <<>>
    /\ handlers = <<>>
    /\ quota = MaxRace
    /\ menu = [q \in 1..MaxRace |->
                  IF q = MaxRace - 1 THEN {<<"dm", T_bang \o T_reset, "absent">>}
                  ELSE {<<"dm", T_hi, "absent">>}]
    /\ input = <<>>
    /\ output = Idle

SpecReset == InitReset /\ [][Next]_vars

-----------------------------------------------------------------------------
(* A room with a history: the store is in memory only, so after a start of  *)
(* the process it is empty whatever the rooms hold                          *)

\* the raw events a direct room may hold from before
HistoryShapes ==
    {Event("dm", Alice, "message", T_hi, "absent"),
     Event("dm", Bot, "message", T_ok, "absent"),
     Event("dm", Alice, "message", T_bang \o T_reset, "absent"),
     Event("dm", Alice, "message", T_bang \o T_help, "absent"),
     Event("dm", Alice, "encrypted", T_hi, "absent"),
     Event("dm", Alice, "bad_tag", <<>>, "absent"),
     Event("dm", Alice, "message_bad", <<>>, "absent"),
     Event("dm", Alice, "encrypted_bad", <<>>, "absent"),
     Event("dm", Alice, "member_left", <<>>, "absent"),
     Event("dm", Alice, "member_bad", <<>>, "absent"),
     Event("dm", Alice, "member_other", <<>>, "absent")}

Histories == UNION {[1..n -> HistoryShapes] : n \in 0..MaxHist}

InitBackfill ==
    /\ events \in Histories
    /\ timeline = [r \in Rooms |-> IF r = "dm" THEN [i \in 1..Len(events) |-> i] ELSE <<>>]
    /\ store = <<>>
    /\ handlers = [i \in 1..Len(events) |-> Task("past")]
    /\ quota = 1
    /\ menu = <<{in \in LiveInputs : is_direct(in[1])}>>
    /\ input = <<>>
    /\ output = Idle

SpecBackfill == InitBackfill /\ [][Next]_vars

-----------------------------------------------------------------------------
(* Command::parse on its own *)

ParsePieces == {<<" ">>, <<"\t">>, T_bang, T_reset, T_help, T_version, T_hi}

ParseInputs == {Flatten(ps) : ps \in UNION {[1..n -> ParsePieces] : n \in 0..MaxPieces}}

Pending == [tag |-> "Pending", keyword |-> <<>>]

InitPure ==
    /\ events = <<>>
    /\ timeline = [r \in Rooms |-> <<>>]
    /\ store = <<>>
    /\ handlers = <<>>
    /\ quota = 0
    /\ menu = <<>>

InitParse ==
    /\ InitPure
    /\ input \in ParseInputs
    /\ output = Pending

ParseStep ==
    /\ output = Pending
    /\ output' = parse(input)
    /\ UNCHANGED <<events, timeline, store, handlers, quota, menu, input>>

SpecParse == InitParse /\ [][ParseStep]_vars

-----------------------------------------------------------------------------
(* into_actions on its own *)

ToolCallRecords == {ToolCallRecord(n, a) : n \in ToolNames, a \in ArgTexts}

ActionInputs ==
    {BackendMessage(c, tcs) :
        c \in {NoContent, ImagesContent, TextContent(T_ok)},
        tcs \in UNION {[1..n -> ToolCallRecords] : n \in 0..MaxTools}}

PendingActions == [tag |-> "Pending", actions |-> <<>>]

InitActions ==
    /\ InitPure
    /\ input \in ActionInputs
    /\ output = PendingActions

ActionsStep ==
    /\ output = PendingActions
    /\ output' = into_actions(input)
    /\ UNCHANGED <<events, timeline, store, handlers, quota, menu, input>>

SpecActions == InitActions /\ [][ActionsStep]_vars

-----------------------------------------------------------------------------
(* send_prompt from the backend's answer on, on its own *)

\* the messages a choice of the response may carry
PromptMessages ==
    {BackendMessage(c, tcs) :
        c \in {NoContent, ImagesContent, TextContent(T_ok)},
        tcs \in UNION {[1..n -> {UrlCall, BadCall}] : n \in 0..MaxTools}}

\* a failed call or undecodable body, or a response with its choices
PromptInputs ==
    {[tag |-> "error", choices |-> <<>>]}
    \cup {[tag |-> "response", choices |-> cs] :
            cs \in UNION {[1..n -> PromptMessages] : n \in 0..MaxChoices}}

PendingPrompt == [tag |-> "Pending", text |-> <<>>]

InitPrompt ==
    /\ InitPure
    /\ input \in PromptInputs
    /\ output = PendingPrompt

PromptStep ==
    /\ output = PendingPrompt
    /\ output' = send_prompt_result(input)
    /\ UNCHANGED <<events, timeline, store, handlers, quota, menu, input>>

SpecPrompt == InitPrompt /\ [][PromptStep]_vars

-----------------------------------------------------------------------------
(* Properties *)

IsPrefix(s, t) == Len(s) <= Len(t) /\ SubSeq(t, 1, Len(s)) = s
Range(s) == {s[i] : i \in 1..Len(s)}
Min(S) == CHOOSE x \in S : \A y \in S : x <= y
Max(S) == CHOOSE x \in S : \A y \in S : y <= x

\* the place of an event in its room, 1 for the oldest
Pos(id) == CHOOSE i \in 1..Len(timeline[events[id].room]) :
                timeline[events[id].room][i] = id

IsReset(id) == parse(events[id].body).tag = "Reset"

\* task h returns from the command branch in this step
CommandStep(h) ==
    /\ h \in DOMAIN handlers
    /\ handlers[h].pc = "start"
    /\ handlers'[h].pc = "ret_command"

\* the store.set of task h's backfill happens in this step
SetStep(h) ==
    /\ h \in DOMAIN handlers
    /\ handlers[h].pc = "set"
    /\ handlers'[h].pc = "send_prompt"

\* C1: a live !reset message that reaches the command branch leaves the
\* anchor list of its room empty when the handler returns, whatever it held,
\* and its task never fetches a conversation, scans the room or calls the
\* completion backend: it is only ever at its start or at a return
C1_ResetClearsWithoutBackend ==
    [][\A h \in DOMAIN handlers' :
          (handlers'[h].pc # "past" /\ parse(events'[h].body).tag = "Reset") =>
              /\ handlers'[h].pc \in {"start", "ret_self", "ret_unmentioned",
                                     "ret_command", "err"}
              /\ handlers'[h].request = <<>>
              /\ handlers'[h].messages = <<>>
              /\ handlers'[h].stream = <<>>
              /\ CommandStep(h) =>
                    /\ events[h].room \in DOMAIN store'
                    /\ store'[events[h].room] = <<>>]_vars

\* C1 witness: a reset returned after an earlier turn of the same room had
\* recorded its anchors, and the list is empty
C1_Witness ==
    \E h \in Live, g \in Live :
        /\ g < h
        /\ RoomOf(g) = RoomOf(h)
        /\ handlers[g].pc = "ret_ok"
        /\ IsReset(h)
        /\ handlers[h].pc = "ret_command"
        /\ Anchors(store, RoomOf(h)) = <<>>

\* the events of a stream (newest first) a backfill should keep when only a
\* Stop-yielding event bounds it: the usable messages met before the first Stop
KeptBeforeStop(stream) ==
    LET stops == {i \in 1..Len(stream) : process_raw_event(stream[i]).tag = "Stop"}
        boundary == IF stops = {} THEN Len(stream) + 1 ELSE Min(stops)
    IN  {stream[i] : i \in {j \in 1..(boundary - 1) :
                               process_raw_event(stream[j]).tag = "Continue"}}

HasStop(stream) ==
    \E i \in 1..Len(stream) : process_raw_event(stream[i]).tag = "Stop"

\* C2: when the history scanned by backfill holds a Stop-yielding event, the
\* anchor list written and the turns rebuilt hold exactly the usable message
\* events newer than the first Stop met: not that event, nothing older, and
\* every usable one that is newer
C2_BackfillStopBoundary ==
    [][\A h \in DOMAIN handlers :
          (SetStep(h) /\ HasStop(handlers[h].stream)) =>
              /\ Range(Anchors(store', RoomOf(h))) = KeptBeforeStop(handlers[h].stream)
              /\ Len(handlers'[h].messages) = Cardinality(KeptBeforeStop(handlers[h].stream))]_vars

\* C3: backfill writes the anchors and rebuilds the turns oldest first: the
\* reverse of the order of discovery, which is the order of the room
C3_BackfillChronological ==
    [][\A h \in DOMAIN handlers :
          SetStep(h) =>
              LET found == handlers[h].scan
                  ids   == Anchors(store', RoomOf(h))
                  turns == handlers'[h].messages
              IN  /\ Len(ids) = Len(found)
                  /\ Len(turns) = Len(found)
                  /\ \A i \in 1..Len(found) :
                        /\ ids[i] = found[Len(found) + 1 - i].id
                        /\ turns[i] = create_message(events[ids[i]])
                  /\ \A i \in 1..Len(ids), j \in 1..Len(ids) :
                        i < j => Pos(ids[i]) < Pos(ids[j])]_vars

\* C3 witness: a backfill has stored three anchors and the task holds their turns
C3_Witness ==
    \E h \in Live :
        /\ handlers[h].pc = "send_prompt"
        /\ Len(Anchors(store, RoomOf(h))) = 3
        /\ Len(handlers[h].messages) = 3
        /\ handlers[h].messages[1] # handlers[h].messages[3]

\* a reset of room r happens in this step
ResetStep(r) ==
    \E h \in DOMAIN handlers : CommandStep(h) /\ events[h].room = r /\ IsReset(h)

\* C4: every step leaves each anchor list extended at its end, or empties it
\* by a reset
C4_AppendOnlyBetweenResets ==
    [][\A r \in Rooms :
          \/ IsPrefix(Anchors(store, r), Anchors(store', r))
          \/ ResetStep(r) /\ Anchors(store', r) = <<>>]_vars

\* C5: a turn of a prompt that failed before its reply was sent leaves the
\* anchor list as it was when the handler started (empty, in a run with one
\* live message)
C5_FailedTurnLeavesStore ==
    \A h \in Live :
        (handlers[h].pc = "err" /\ handlers[h].response_id = 0
            /\ parse(events[h].body).tag = "None") =>
                Anchors(store, RoomOf(h)) = <<>>

\* C6: a message of a group room that does not mention the bot, mentions
\* data absent included, is dropped at the gate: its task fetches nothing,
\* changes no anchor list and calls no backend
C6_UnmentionedIgnored ==
    \A h \in Live :
        (events[h].sender # Bot /\ ~is_direct(RoomOf(h)) /\ events[h].mentions # "bot") =>
            /\ handlers[h].pc \in {"start", "ret_unmentioned", "err"}
            /\ handlers[h].request = <<>>

\* what parse should give when the keyword ends at the first character of
\* delimiters, stated without the recursion of the code
ExpectedParse(text, delimiters) ==
    LET solid == {i \in 1..Len(text) : text[i] \notin WhiteSpace}
        t     == IF solid = {} THEN <<>> ELSE SubSeq(text, Min(solid), Max(solid))
        rest  == SubSeq(t, 2, Len(t))
        ends  == {i \in 1..Len(rest) : rest[i] \in delimiters}
        word  == IF ends = {} THEN rest ELSE SubSeq(rest, 1, Min(ends) - 1)
    IN  IF t = <<>> \/ t[1] # "!" THEN NoCommand
        ELSE IF word \in {T_reset, T_help, T_version}
             THEN [tag |-> CASE word = T_reset -> "Reset"
                             [] word = T_help -> "Help"
                             [] OTHER -> "Version",
                   keyword |-> <<>>]
             ELSE [tag |-> "Unknown", keyword |-> word]

\* C7 as amended: parse gives no command when the trimmed text does not
\* start with "!"; otherwise the keyword is the text after the "!" up to the
\* first space character (a tab does not end it), and the result is Reset,
\* Help, Version or Unknown(keyword); there is always a result
C7_ParseSpaceDelimited ==
    output # Pending =>
        /\ output = ExpectedParse(input, {" "})
        /\ output.tag \in {"None", "Reset", "Help", "Version", "Unknown"}

\* C7 witness: "!reset<tab>hi" is an unknown command whose keyword holds the tab
C7_Witness ==
    /\ input = T_bang \o T_reset \o <<"\t">> \o T_hi
    /\ output = [tag |-> "Unknown", keyword |-> T_reset \o <<"\t">> \o T_hi]

\* C7 as stated: the keyword is the first whitespace-delimited token
C7_ParseWhitespaceDelimited ==
    output # Pending => output = ExpectedParse(input, WhiteSpace)

StartsWithBang(text) == trim(text) # <<>> /\ Head(trim(text)) = "!"

\* C8 as amended: no message sent by a user whose trimmed text starts with
\* "!" is among the messages of a backend request (a reply of the bot that
\* starts with "!" is, through the anchors)
C8_NoUserCommandInRequest ==
    \A h \in Live :
        \A i \in 1..Len(handlers[h].request) :
            handlers[h].request[i].role = "user" =>
                ~StartsWithBang(handlers[h].request[i].content.text)

\* C8 witness: a request was issued in a room whose timeline holds an earlier
\* user command, and the request holds an earlier turn besides the prompt
C8_Witness ==
    \E h \in Live, g \in Live :
        /\ g < h
        /\ RoomOf(g) = RoomOf(h)
        /\ events[g].sender # Bot
        /\ StartsWithBang(events[g].body)
        /\ Len(handlers[h].request) >= 2

\* C8 as stated: no message at all whose trimmed text starts with "!" is
\* among the messages of a backend request
C8_NoCommandInRequest ==
    \A h \in Live :
        \A i \in 1..Len(handlers[h].request) :
            ~StartsWithBang(handlers[h].request[i].content.text)

Parseable(tool_call) == try_from(tool_call).tag # "Err"

CountTag(actions, tag) == Cardinality({i \in 1..Len(actions) : actions[i].tag = tag})

\* C9: into_actions gives exactly one Reply for text content without tool
\* calls, and for N >= 1 parseable tool calls, text absent or present,
\* exactly N ToolCall actions after the Reply if there is one
C9_IntoActionsCounts ==
    output # PendingActions =>
        /\ (input.content.tag = "Text" /\ input.tool_calls = <<>>) =>
              (output.tag = "Ok" /\ output.actions = <<ReplyAction(input.content.text)>>)
        /\ (/\ input.content.tag \in {"Text", "None"}
            /\ input.tool_calls # <<>>
            /\ \A i \in 1..Len(input.tool_calls) : Parseable(input.tool_calls[i])) =>
              /\ output.tag = "Ok"
              /\ CountTag(output.actions, "ToolCall") = Len(input.tool_calls)
              /\ CountTag(output.actions, "Reply") =
                    (IF input.content.tag = "Text" THEN 1 ELSE 0)
              /\ \A i \in 2..Len(output.actions) : output.actions[i].tag = "ToolCall"

\* C10: the first message of an empty direct room, answered with a text
\* reply: the request holds the prompt as its only turn and the anchors are
\* the prompt id and the response id
C10_FirstTurnEndToEnd ==
    \A h \in Live :
        (/\ timeline["dm"] = <<h, handlers[h].response_id>>
         /\ events[h].sender # Bot
         /\ handlers[h].pc = "ret_ok") =>
            /\ handlers[h].request = <<PromptMessage(events[h].body)>>
            /\ Anchors(store, "dm") = <<h, handlers[h].response_id>>

\* the event kinds whose decoding fails: a malformed type tag, a malformed
\* message or membership payload, a failed decryption
CorruptKinds == {"bad_tag", "message_bad", "member_bad", "encrypted_bad"}

HasCorrupt(stream) ==
    \E i \in 1..Len(stream) : events[stream[i]].kind \in CorruptKinds

\* C11: when the history scanned by backfill holds an event whose decoding
\* fails, that event alone is skipped: the anchors written are still all the
\* usable message events met before the first Stop, the ones older than the
\* corrupt event included
C11_DecodeFailureSkipped ==
    [][\A h \in DOMAIN handlers :
          (SetStep(h) /\ HasCorrupt(handlers[h].stream)) =>
              Range(Anchors(store', RoomOf(h))) = KeptBeforeStop(handlers[h].stream)]_vars

\* a backend answer that yields no usable action: an unparseable body, no
\* choice at all, or a first choice with neither text nor tool calls or
\* with images only
NoUsableAction(outcome) ==
    \/ outcome.tag = "error"
    \/ outcome.choices = <<>>
    \/ /\ Head(outcome.choices).content.tag \in {"None", "Images"}
       /\ Head(outcome.choices).tool_calls = <<>>

\* C12: on a backend answer without a usable action send_prompt returns an
\* error value: it neither aborts the task nor returns a reply
C12_NoUsableActionIsError ==
    (output # PendingPrompt /\ NoUsableAction(input)) => output.tag = "Err"

\* C13: every anchor list is a concatenation of (prompt id, response id)
\* pairs of turns whose reply was sent: even length, each pair the id of a
\* delivered non-command user message followed by the id of the reply sent
\* for it
C13_AnchorsArePairs ==
    \A room \in DOMAIN store :
        LET ids == store[room]
        IN  /\ Len(ids) % 2 = 0
            /\ \A k \in 1..(Len(ids) \div 2) :
                  LET prompt_id   == ids[2 * k - 1]
                      response_id == ids[2 * k]
                  IN  /\ prompt_id \in Live
                      /\ events[prompt_id].sender # Bot
                      /\ parse(events[prompt_id].body).tag = "None"
                      /\ handlers[prompt_id].response_id = response_id

\* a tool-call record that names a declared tool with arguments of its shape
DeclaredShape(tool_call) ==
    /\ tool_call.name = "fetch_url"
    /\ tool_call.arguments \in {"{\"url\":\"https://x\"}",
                                "{\"url\":\"https://x\",\"extra\":1}"}

\* C14: on a message with text content, into_actions succeeds exactly when
\* every tool-call record names fetch_url with arguments holding a url
\* string, each record then giving FetchUrl with that url; an unknown name
\* or mismatching arguments make it fail as a whole
C14_ToolCallParsing ==
    (output # PendingActions /\ input.content.tag = "Text") =>
        /\ output.tag = "Ok" <=>
              \A i \in 1..Len(input.tool_calls) : DeclaredShape(input.tool_calls[i])
        /\ output.tag = "Ok" =>
              /\ Len(output.actions) = Len(input.tool_calls) + 1
              /\ \A i \in 1..Len(input.tool_calls) :
                    output.actions[i + 1] =
                        ToolCallAction([tag |-> "FetchUrl", url |-> "https://x"])
        /\ output.tag = "Err" => output.actions = <<>>

\* C14 witness: a message with text and as many tool-call records as the
\* bound allows was decoded into its actions
C14_Witness ==
    /\ input \in ActionInputs
    /\ input.content.tag = "Text"
    /\ Len(input.tool_calls) = MaxTools
    /\ output.tag = "Ok"

\* C15: a step of the task handling a message of one room, whatever store
\* operation it performs, leaves the anchor list of every other room as it
\* was, and a list only changes in a step of a task of its own room
C15_OtherIdentitiesUnchanged ==
    [][/\ \A h \in DOMAIN handlers :
             handlers'[h] # handlers[h] =>
                 \A room \in Rooms \ {RoomOf(h)} :
                     Anchors(store', room) = Anchors(store, room)
       /\ \A room \in Rooms :
             Anchors(store', room) # Anchors(store, room) =>
                 \E h \in DOMAIN handlers :
                     RoomOf(h) = room /\ handlers'[h] # handlers[h]]_vars

\* C15 witness: a reset was handled in one room while the other room holds
\* recorded anchors
C15_Witness ==
    \E h \in Live :
        /\ IsReset(h)
        /\ handlers[h].pc = "ret_command"
        /\ \E room \in Rooms \ {RoomOf(h)} : Anchors(store, room) # <<>>

\* the events of a room, newest first, met before the scan of a backfill
\* ends: before the first one that yields Stop or an error, and before the
\* place where the transport failed after given items
MetBeforeEnd(room, given) ==
    LET full == Reverse(timeline[room])
        ends == {i \in 1..Len(full) :
                    \/ i > given
                    \/ process_raw_event(full[i]).tag \in {"Stop", "Err"}}
        last == IF ends = {} THEN Len(full) ELSE Min(ends) - 1
    IN  {full[i] : i \in 1..last}

\* C16: the scan of backfill ends at the first event that yields Stop or an
\* error (decoding, decryption, transport): the anchors written are the
\* usable events met before it, each once, nothing older, and backfill goes
\* on to the store and to send_prompt without failing
C16_ScanEndsAtFirstStopOrError ==
    [][\A h \in DOMAIN handlers :
          /\ SetStep(h) =>
                LET kept == {id \in MetBeforeEnd(RoomOf(h), Len(handlers[h].stream)) :
                                process_raw_event(id).tag = "Continue"}
                    ids  == Anchors(store', RoomOf(h))
                IN  /\ Range(ids) = kept
                    /\ Len(ids) = Cardinality(kept)
                    /\ Len(handlers'[h].messages) = Cardinality(kept)
          /\ (handlers[h].pc \in {"backfill", "set"} /\ handlers'[h] # handlers[h]) =>
                handlers'[h].pc = (IF handlers[h].pc = "backfill"
                                   THEN "set" ELSE "send_prompt")]_vars

\* C16 witness: a backfill went through a room whose history holds a usable
\* event older than an event that fails to decode, and kept only the
\* triggering message
C16_Witness ==
    \E h \in Live :
        /\ handlers[h].pc = "send_prompt"
        /\ timeline[RoomOf(h)] = <<1, 2, h>>
        /\ process_raw_event(1).tag = "Continue"
        /\ process_raw_event(2).tag = "Err"
        /\ Anchors(store, RoomOf(h)) = <<h>>
        /\ Len(handlers[h].messages) = 1

\* send_prompt of task h has returned a reply text
GotReply(h) == handlers[h].request # <<>> /\ handlers[h].reply # <<>>

Last(s) == s[Len(s)]

\* C17 as amended: after a send_prompt that returned a reply, the turns the
\* conversation holds are the ones the request carried and end with the new
\* user turn; no turn is appended for the reply
C17_HistoryEndsWithPrompt ==
    \A h \in Live :
        GotReply(h) =>
            /\ handlers[h].messages = handlers[h].request
            /\ Last(handlers[h].messages) =
                  [role |-> "user", content |-> TextContent(events[h].body),
                   tool_calls |-> <<>>]

\* C17 witness: a reply was returned to a task whose conversation held
\* earlier turns, an assistant turn among them
C17_Witness ==
    \E h \in Live :
        /\ GotReply(h)
        /\ handlers[h].pc = "ret_ok"
        /\ \E i \in 1..Len(handlers[h].messages) :
              handlers[h].messages[i].role = "assistant"

\* C17 as stated: after a send_prompt that returned a reply, the turns the
\* conversation holds end with the new user turn followed by the assistant
\* turn of the reply
C17_HistoryEndsWithReply ==
    \A h \in Live :
        GotReply(h) =>
            /\ Len(handlers[h].messages) >= 2
            /\ Last(handlers[h].messages) =
                  [role |-> "assistant", content |-> TextContent(handlers[h].reply),
                   tool_calls |-> <<>>]
            /\ handlers[h].messages[Len(handlers[h].messages) - 1] =
                  [role |-> "user", content |-> TextContent(events[h].body),
                   tool_calls |-> <<>>]

\* the first choice of a backend answer carries text and tool-call records
TextAndToolCalls(outcome) ==
    /\ outcome.tag = "response"
    /\ outcome.choices # <<>>
    /\ Head(outcome.choices).content.tag = "Text"
    /\ Head(outcome.choices).tool_calls # <<>>

\* C18 as amended: a first choice with text and tool-call records that all
\* parse is resolved as a plain reply with that text; a record that does
\* not parse makes send_prompt return an error
C18_ReplyWinsWhenToolCallsParse ==
    (output # PendingPrompt /\ TextAndToolCalls(input)) =>
        IF \A i \in 1..Len(Head(input.choices).tool_calls) :
               Parseable(Head(input.choices).tool_calls[i])
        THEN output = [tag |-> "Ok", text |-> Head(input.choices).content.text]
        ELSE output.tag = "Err"

\* C18 witness: an answer whose first choice holds text and as many
\* parseable tool-call records as the bound allows was resolved as a reply
C18_Witness ==
    /\ input \in PromptInputs
    /\ TextAndToolCalls(input)
    /\ Head(input.choices).tool_calls = [i \in 1..MaxTools |-> UrlCall]
    /\ output.tag = "Ok"

\* C18 as stated: a first choice with text and tool-call records is resolved
\* as a plain reply with that text whatever the records hold
C18_ReplyWinsAlways ==
    (output # PendingPrompt /\ TextAndToolCalls(input)) =>
        output = [tag |-> "Ok", text |-> Head(input.choices).content.text]

\* C19: a task enters backfill only from get_conversation, in a direct room
\* and with an empty stored anchor list (so the materialized history is
\* empty); it never enters it twice; the stream is scanned and store.set is
\* called only inside backfill; and the list of a non-direct room is never
\* replaced: it only grows at its end or is emptied by a reset
C19_BackfillOnlyWhenEmptyAndDirect ==
    [][/\ \A h \in DOMAIN handlers :
             /\ handlers'[h].pc = "backfill" =>
                   \/ handlers[h].pc = "backfill"
                   \/ /\ handlers[h].pc = "start"
                      /\ is_direct(RoomOf(h))
                      /\ Anchors(store, RoomOf(h)) = <<>>
                      /\ handlers'[h].messages = <<>>
             /\ handlers[h].pc # "start" => handlers'[h].pc # "start"
             /\ handlers'[h].stream # handlers[h].stream =>
                   handlers[h].pc \in {"backfill", "set"}
             /\ handlers'[h].pc = "set" => is_direct(RoomOf(h))
       /\ \A room \in Rooms :
             \/ IsPrefix(Anchors(store, room), Anchors(store', room))
             \/ ResetStep(room)
             \/ /\ is_direct(room)
                /\ \E h \in DOMAIN handlers : RoomOf(h) = room /\ SetStep(h)]_vars

\* C19 witness: a turn of a group room whose stored list was empty went
\* through without a backfill: the request carried the prompt alone
C19_Witness ==
    \E h \in Live :
        /\ ~is_direct(RoomOf(h))
        /\ handlers[h].pc = "ret_ok"
        /\ Len(handlers[h].request) = 1
        /\ Anchors(store, RoomOf(h)) = <<h, handlers[h].response_id>>

\* C20: the request issued for a message that was delivered after the
\* handler of a reset of its room had returned carries no turn built from a
\* user message older than that reset
C20_ResetIsBoundary ==
    \A h \in Live :
        (handlers[h].boundary > 0 /\ handlers[h].request # <<>>) =>
            \A i \in 1..Len(handlers[h].sources) :
                \/ events[handlers[h].sources[i]].sender = Bot
                \/ handlers[h].sources[i] > handlers[h].boundary

\* the number of places of a sequence that hold x
Occurrences(s, x) == Cardinality({i \in 1..Len(s) : s[i] = x})

\* C21: no anchor list holds an event id twice, and the turns of a request
\* hold the message that triggered it exactly once
C21_NoEventTwice ==
    /\ \A room \in DOMAIN store :
          \A id \in Range(store[room]) : Occurrences(store[room], id) = 1
    /\ \A h \in Live :
          handlers[h].request # <<>> => Occurrences(handlers[h].sources, h) = 1

\* C22: the task of a message sent by the bot itself only starts and
\* returns: it reads no conversation, scans no room, issues no request and
\* sends no reply, and its steps leave the store as it is
C22_OwnMessagesIgnored ==
    [][\A h \in DOMAIN handlers :
          (handlers[h].pc # "past" /\ events[h].sender = Bot) =>
              /\ handlers'[h].pc \in {"start", "ret_self", "err"}
              /\ handlers'[h].messages = <<>>
              /\ handlers'[h].stream = <<>>
              /\ handlers'[h].request = <<>>
              /\ handlers'[h].response_id = 0
              /\ handlers'[h] # handlers[h] =>
                    /\ store' = store
                    /\ events' = events
                    /\ Len(handlers') = Len(handlers)]_vars

\* C22 witness: the bot's reply to a turn was delivered back to the handler,
\* which returned at the sender test, and the anchors are those of the turn
C22_Witness ==
    \E h \in Live, g \in Live :
        /\ handlers[g].response_id = h
        /\ events[h].sender = Bot
        /\ handlers[h].pc = "ret_self"
        /\ handlers[g].pc = "ret_ok"
        /\ Anchors(store, RoomOf(g)) # <<>>

====
